---- MODULE Spec2Model ----
(***************************************************************************)
(* Model of analizador_funcion_streamlit.py: one run of the script from    *)
(* the point where the inputs have been accepted (x_min < x_max, the       *)
(* expression parsed) to the point where the results are displayed.        *)
(*                                                                         *)
(* Numbers.  An abscissa is a pair <<w, t>> standing for the real number   *)
(* w + t * 10^-12 / TicksPerGrid: w counts whole units, t counts "ticks",  *)
(* a resolution finer than the 12th decimal, so that round(c, 12) is a     *)
(* real rounding and not the identity.  |t| stays far below one unit, so   *)
(* the order is lexicographic.                                             *)
(*                                                                         *)
(* Evaluations.  The lambdified functions f_num, f1_num, f2_num are the    *)
(* user's input.  The outcome of one call is a pair: <<"num", v>> (a       *)
(* number, v in tolerance units), <<"nan", 0>> (not-a-number, returned     *)
(* with a numpy warning) or <<"raise", 0>> (a Python exception).           *)
(*                                                                         *)
(* Functions.  The run analyses one function of a catalogue:               *)
(*   "x**2", "x**3", "2*x"  every outcome is computed;                     *)
(*   "search"  any outcome is possible while the critical points are       *)
(*             searched (sampling, solver, bisection, denominator zeros);  *)
(*             where it is classified the function is regular;             *)
(*   "values"  the derivative changes sign once, at the centre of the      *)
(*             domain, and the solver finds that root; any outcome is      *)
(*             possible at the points where the function is classified.    *)
(***************************************************************************)
EXTENDS Integers, Sequences, FiniteSets, TLC

VARIABLES fn, x_min, x_max, samples, tol,
          pc, der_shape, der_vals, i, candidates, bis,
          crit_points, breaks, intervals, classification, extrema,
          f1_memo, probe

vars == <<fn, x_min, x_max, samples, tol,
          pc, der_shape, der_vals, i, candidates, bis,
          crit_points, breaks, intervals, classification, extrema,
          f1_memo, probe>>

----------------------------------------------------------------------------
(* Bounds of the model *)

\* ticks per 10^-12: the sub-grid resolution of abscissas
TicksPerGrid == 4
\* sample counts 2..MaxSamples explored for the function "search"
MaxSamples == 2
\* distance between two consecutive samples of "search", in whole units
GridStep == 4
\* number of solutions sp.solve may return for the denominator
MaxDenZeros == 1
\* length of the candidate lists fed to the deduplication on its own
MaxRaw == 3
\* largest tick offset of those candidates
MaxTick == 12

(* Constants of the program *)

\* round(float(c), 12)
RoundDigits == 12
\* x_min - 1e-8 <= root <= x_max + 1e-8
BandDigits == 8
\* h = 1e-4
HDigits == 4
\* for _ in range(40)
BisectIters == 40
\* st.slider(..., 200, 2000, 800)
MinSamples == 200
DefaultSamples == 800

RECURSIVE Pow10(_)
Pow10(n) == IF n = 0 THEN 1 ELSE 10 * Pow10(n - 1)

\* 1e-8 and 1e-4 in ticks
BandTicks == Pow10(RoundDigits - BandDigits) * TicksPerGrid
HTicks == Pow10(RoundDigits - HDigits) * TicksPerGrid

----------------------------------------------------------------------------
(* Abscissas *)

Num(w, t) == <<w, t>>

Less(p, q) == p[1] < q[1] \/ (p[1] = q[1] /\ p[2] < q[2])
Leq(p, q) == p = q \/ Less(p, q)

\* p + q, used as twice the midpoint (p + q) / 2
Sum(p, q) == <<p[1] + q[1], p[2] + q[2]>>
Shift(p, d) == <<p[1], p[2] + d>>

Sgn(n) == IF n > 0 THEN 1 ELSE IF n < 0 THEN -1 ELSE 0
\* sign of an abscissa, and whether it is at least one whole unit from 0
ArgSign(p) == IF p[1] # 0 THEN Sgn(p[1]) ELSE Sgn(p[2])

----------------------------------------------------------------------------
(* Deduplication, line 108 *)

\* the tick part left as it is: what line 108 would do without round(., 12)
RoundTicksOmitted(t) == t

\* round(., 12) on the tick part: nearest multiple of TicksPerGrid, a tie
\* going to the even multiple (Python rounds half to even)
RoundTicks(t) ==
    LET q == t \div TicksPerGrid
        r == t % TicksPerGrid
    IN  IF 2 * r < TicksPerGrid THEN q * TicksPerGrid
        ELSE IF 2 * r > TicksPerGrid THEN (q + 1) * TicksPerGrid
        ELSE IF q % 2 = 0 THEN q * TicksPerGrid ELSE (q + 1) * TicksPerGrid

\* round(float(c), 12): whole units are multiples of 10^-12
Round12(c) == <<c[1], RoundTicks(c[2])>>

SeqToSet(s) == {s[n] : n \in 1..Len(s)}

MinOf(S) == CHOOSE p \in S : \A q \in S : Leq(p, q)

\* sorted(list(S))
RECURSIVE Sorted(_)
Sorted(S) == IF S = {} THEN <<>>
             ELSE LET p == MinOf(S) IN <<p>> \o Sorted(S \ {p})

\* sorted(list(set([round(float(c), 12) for c in crit_points if np.isfinite(c)])))
\* every element the run puts in crit_points is a finite float
DedupSort(cs) == Sorted({Round12(c) : c \in SeqToSet(cs)})

\* breaks = [x_min] + crit_points + [x_max]
Breaks(lo, cs, hi) == <<Num(lo, 0)>> \o cs \o <<Num(hi, 0)>>


----------------------------------------------------------------------------
(* Outcomes of one call of a lambdified function *)

Val(v) == <<"num", v>>
NaN == <<"nan", 0>>
Raise == <<"raise", 0>>
\* the call was not made
NotEval == <<"none", 0>>

IsNum(o) == o[1] = "num"
\* np.isnan(o)
IsNaN(o) == o[1] = "nan"

\* the values "search" and "values" may return, in tolerance units
Values == {Val(-1), Val(0), Val(1)}
\* a call on the sample array or on a numpy scalar does not raise for a
\* domain error: numpy returns nan
ArrayOutcomes == Values \cup {NaN}
Outcomes == Values \cup {NaN, Raise}

----------------------------------------------------------------------------
(* The functions analysed, lines 16-45 *)

Polynomials == {"x**2", "x**3", "2*x"}
Functions == Polynomials \cup {"search", "values"}

\* domains [x_min, x_max] of the polynomials
Domains == {<<-5, 5>>, <<-10, 10>>, <<0, 10>>, <<-10, 0>>}
Tols == {-1, 0, 1}

\* An argument of a polynomial: its sign, and whether it is a whole unit or
\* more away from 0.  The value returned is 0, or +-2 (far from 0), or +-1
\* (a nonzero value at an argument within ticks of 0, where the program
\* reads only the sign).
Arg(sgn, far) == [sgn |-> sgn, far |-> far]
Mag(A) == IF A.sgn = 0 THEN 0 ELSE IF A.far THEN 2 ELSE 1

\* f_num = lambdify(x, f_sym)
PolyF(f, A) ==
    CASE f = "x**2" -> Val(Mag(A))
      [] f = "x**3" -> Val(A.sgn * Mag(A))
      [] f = "2*x"  -> Val(A.sgn * Mag(A))

\* f1_num = lambdify(x, diff(f_sym, x)): 2*x, 3*x**2, 2
PolyF1(f, A) ==
    CASE f = "x**2" -> Val(A.sgn * Mag(A))
      [] f = "x**3" -> Val(Mag(A))
      [] f = "2*x"  -> Val(2)

\* f2_num = lambdify(x, diff(f1_sym, x)): 2, 6*x, 0
PolyF2(f, A) ==
    CASE f = "x**2" -> Val(2)
      [] f = "x**3" -> Val(A.sgn * Mag(A))
      [] f = "2*x"  -> Val(0)

\* a lambdified expression without x returns one scalar for the whole array
F1IsConstant(f) == f = "2*x"

----------------------------------------------------------------------------
(* Sampling, lines 48-54 *)

\* xs = np.linspace(x_min, x_max, samples): xs[n] = XsNum(n) / (samples - 1)
XsNum(n) == x_min * (samples - 1) + n * (x_max - x_min)

\* xs[n] as an abscissa.  Exact where the program stores it: the samples of
\* "search" lie GridStep whole units apart, and a sample of the other
\* functions is stored only where the derivative is 0, which is at 0.
Xs(n) == Num(XsNum(n) \div (samples - 1), 0)

SampleArg(n) == Arg(Sgn(XsNum(n)), XsNum(n) # 0)

\* twice an abscissa: the key under which a point is looked up
Dbl(p) == <<2 * p[1], 2 * p[2]>>
PointArg(p2) == Arg(ArgSign(p2), p2[1] # 0)

\* the index of the sample at the (doubled) point p2, as a set
SampleAt(p2) == {n \in 0..(samples - 1) :
                    p2[2] = 0 /\ 2 * XsNum(n) = p2[1] * (samples - 1)}

\* what is known of f1 at the doubled point p2 from the calls made so far
Known(p2) ==
    IF der_shape = "array" /\ SampleAt(p2) # {}
    THEN {der_vals[n + 1] : n \in SampleAt(p2)}
    ELSE {e[2] : e \in {e \in f1_memo : e[1] = p2}}

\* f1_num at the doubled point p2, called with a numpy scalar (the
\* bisection): a failure is a nan, or an exception
EvalF1(p2) ==
    IF fn \in Polynomials THEN {PolyF1(fn, PointArg(p2))}
    ELSE IF Known(p2) # {} THEN Known(p2)
    ELSE Outcomes

\* the outcomes of a call made to classify, at a point not evaluated before
ClassifyOutcomes == IF fn = "values" THEN Outcomes ELSE {Val(1)}

\* f1_num at the doubled point p2, called with a Python float (the
\* classifications): a number found before is found again; where numpy
\* returned nan, Python arithmetic may raise instead
EvalF1Float(p2) ==
    IF fn \in Polynomials THEN {PolyF1(fn, PointArg(p2))}
    ELSE IF \E o \in Known(p2) : IsNum(o) THEN Known(p2)
    ELSE IF Known(p2) # {} THEN {NaN, Raise}
    ELSE ClassifyOutcomes

EvalF2(c) == IF fn \in Polynomials THEN {PolyF2(fn, PointArg(c))}
             ELSE ClassifyOutcomes
EvalF(c) == IF fn \in Polynomials THEN {PolyF(fn, PointArg(c))}
            ELSE ClassifyOutcomes \cap {Val(1), Raise}

----------------------------------------------------------------------------
(* Initial state: the inputs have passed the checks of lines 25-36 *)

NoBisection == [a |-> Num(0, 0), b |-> Num(0, 0), fa |-> NotEval, it |-> 0,
                rr |-> <<>>, nans |-> FALSE]
\* the outcomes of the last classifying calls, and the points at which the
\* last fallback called f1_num
NoProbe == [dmid |-> NotEval, s |-> NotEval, left |-> NotEval,
            right |-> NotEval, pts |-> <<>>]

InitRun ==
    /\ pc = "sample"
    /\ der_shape = "none"
    /\ der_vals = <<>>
    /\ i = 0
    /\ candidates = {}
    /\ bis = NoBisection
    /\ crit_points = <<>>
    /\ breaks = <<>>
    /\ intervals = <<>>
    /\ classification = <<>>
    /\ extrema = <<>>
    /\ f1_memo = {}
    /\ probe = NoProbe

Init ==
    /\ fn \in Functions
    /\ tol \in Tols
    /\ CASE fn = "search" ->
               /\ samples \in 2..MaxSamples
               /\ x_min = 0
               /\ x_max = (samples - 1) * GridStep
         [] fn = "values" ->
               /\ samples = MinSamples
               /\ x_min = 0
               /\ x_max = 2
         [] OTHER ->
               /\ samples \in {MinSamples, MinSamples + 1, DefaultSamples}
               /\ \E d \in Domains : x_min = d[1] /\ x_max = d[2]
    /\ InitRun

----------------------------------------------------------------------------
(* Lines 48-54: der_vals = f1_num(xs), element by element if that raises *)

\* twice the centre of the domain, in the units of XsNum
CentreNum == (x_min + x_max) * (samples - 1)

\* the arrays f1_num(xs) may return
SampledValues ==
    CASE fn = "search" -> [1..samples -> ArrayOutcomes]
      [] fn = "values" -> {[n \in 1..samples |-> Val(Sgn(2 * XsNum(n - 1) - CentreNum))]}
      [] OTHER -> {[n \in 1..samples |-> PolyF1(fn, SampleArg(n - 1))]}

Sample ==
    /\ pc = "sample"
    /\ \/ \* f1_num(xs) returns one value per sample
          /\ ~F1IsConstant(fn)
          /\ der_shape' = "array"
          /\ der_vals' \in SampledValues
          /\ pc' = "sweep"
       \/ \* f1_sym does not contain x: f1_num(xs) returns a scalar
          /\ fn = "search" \/ F1IsConstant(fn)
          /\ der_shape' = "scalar"
          /\ der_vals' = <<>>
          /\ pc' = "sweep"
       \/ \* f1_num(xs) raises; line 54 calls f1_num(xi) for each sample,
          \* outside any try
          /\ fn = "search"
          /\ \E each \in [1..samples -> Outcomes] :
                IF \E n \in 1..samples : each[n] = Raise
                THEN /\ der_shape' = "none"
                     /\ der_vals' = <<>>
                     /\ pc' = "aborted"
                ELSE /\ der_shape' = "array"
                     /\ der_vals' = each
                     /\ pc' = "sweep"
    /\ UNCHANGED <<fn, x_min, x_max, samples, tol, i, candidates, bis,
                   crit_points, breaks, intervals, classification, extrema,
                   f1_memo, probe>>

----------------------------------------------------------------------------
(* Lines 60-89: the sweep over consecutive samples *)

\* x_min - 1e-8 <= root <= x_max + 1e-8
InBand(r) == /\ Leq(Num(x_min, -BandTicks), r)
             /\ Leq(r, Num(x_max, BandTicks))

\* float(sp.nsolve(f1_sym, x, (a+b)/2)) on the bracket (xs[n], xs[n+1]): the
\* floats it may return.  The solver is seeded in the bracket but is free to
\* converge anywhere; for 2*x it returns the root 0 to within far less than
\* a tick.
NsolveRoots(n) ==
    CASE fn = "search" -> {Num(x_min, -BandTicks - 1), Num(x_min, -BandTicks),
                           Num(Xs(n)[1] + 1, 3),
                           Num(x_max, BandTicks), Num(x_max, BandTicks + 1)}
      [] fn = "values" -> {Num((x_min + x_max) \div 2, 0)}
      [] OTHER -> {Num(0, 0)}

\* whether sp.nsolve may raise on the bracket
NsolveMayRaise == fn = "search"

\* np.sign(u) * np.sign(v) < 0; a nan makes the comparison false
SignChange(u, v) == IsNum(u) /\ IsNum(v) /\ Sgn(u[2]) * Sgn(v[2]) < 0

\* one iteration of "for i in range(len(xs)-1)", lines 61-72
SweepStep ==
    /\ pc = "sweep"
    /\ i < samples - 1
    /\ IF der_shape = "scalar"
       THEN \* der_vals[i] on a scalar: TypeError, outside any try
            /\ pc' = "aborted"
            /\ UNCHANGED <<i, candidates, bis>>
       ELSE LET da == der_vals[i + 1]
                db == der_vals[i + 2]
                zero == IF da = Val(0) THEN {Xs(i)} ELSE {}
            IN  IF IsNaN(da) \/ IsNaN(db)
                THEN /\ i' = i + 1
                     /\ UNCHANGED <<pc, candidates, bis>>
                ELSE IF ~SignChange(da, db)
                THEN /\ candidates' = candidates \cup zero
                     /\ i' = i + 1
                     /\ UNCHANGED <<pc, bis>>
                ELSE \/ \E root \in NsolveRoots(i) :
                          /\ candidates' = candidates \cup zero
                                            \cup (IF InBand(root) THEN {root} ELSE {})
                          /\ i' = i + 1
                          /\ UNCHANGED <<pc, bis>>
                     \/ /\ NsolveMayRaise
                        /\ candidates' = candidates \cup zero
                        /\ bis' = [a |-> Xs(i), b |-> Xs(i + 1), fa |-> da,
                                   it |-> 0, rr |-> <<>>, nans |-> FALSE]
                        /\ pc' = "bisect"
                        /\ UNCHANGED i
    /\ UNCHANGED <<fn, x_min, x_max, samples, tol, der_shape, der_vals,
                   crit_points, breaks, intervals, classification, extrema,
                   f1_memo, probe>>

\* m = (a+b)/2 in the arithmetic of the abscissas: once a and b are
\* neighbours the midpoint is a itself (the precision is exhausted)
Mid(a, b) == Num((a[1] + b[1]) \div 2, 0)

\* one iteration of "for _ in range(40)", lines 78-85
BisectStep ==
    /\ pc = "bisect"
    /\ bis.rr = <<>>
    /\ bis.it < BisectIters
    /\ LET m == Mid(bis.a, bis.b)
       IN  \E fm \in EvalF1(Dbl(m)) :
             IF fm = Raise
             THEN \* except Exception: pass
                  /\ pc' = "sweep"
                  /\ i' = i + 1
                  /\ bis' = NoBisection
                  /\ UNCHANGED f1_memo
             ELSE /\ f1_memo' = IF Known(Dbl(m)) = {}
                                THEN f1_memo \cup {<<Dbl(m), fm>>}
                                ELSE f1_memo
                  /\ UNCHANGED <<pc, i>>
                  /\ IF fm = Val(0)
                     THEN bis' = [bis EXCEPT !.rr = <<m>>]
                     ELSE IF SignChange(bis.fa, fm)
                     THEN bis' = [bis EXCEPT !.b = m, !.it = @ + 1,
                                             !.nans = @ \/ IsNaN(fm)]
                     ELSE bis' = [bis EXCEPT !.a = m, !.fa = fm, !.it = @ + 1,
                                             !.nans = @ \/ IsNaN(fm)]
    /\ UNCHANGED <<fn, x_min, x_max, samples, tol, der_shape, der_vals,
                   candidates, crit_points, breaks, intervals, classification,
                   extrema, probe>>

\* lines 86-87, after the break or the 40th iteration
BisectEnd ==
    /\ pc = "bisect"
    /\ bis.rr # <<>> \/ bis.it = BisectIters
    /\ candidates' = candidates \cup SeqToSet(bis.rr)
    /\ pc' = "sweep"
    /\ i' = i + 1
    /\ bis' = NoBisection
    /\ UNCHANGED <<fn, x_min, x_max, samples, tol, der_shape, der_vals,
                   crit_points, breaks, intervals, classification, extrema,
                   f1_memo, probe>>

\* line 92, after the last pair
SweepEnd ==
    /\ pc = "sweep"
    /\ i = samples - 1
    /\ crit_points' = Sorted(candidates)
    /\ pc' = "denzeros"
    /\ UNCHANGED <<fn, x_min, x_max, samples, tol, der_shape, der_vals, i,
                   candidates, bis, breaks, intervals, classification,
                   extrema, f1_memo, probe>>

----------------------------------------------------------------------------
(* Lines 94-105: zeros of the denominator of the first derivative *)

RealZero(p) == [real |-> TRUE, v |-> p]
\* a solution float(z) cannot convert
NonRealZero == [real |-> FALSE, v |-> Num(0, 0)]

\* the solutions sp.solve may return
DenPool == {NonRealZero, RealZero(Num(x_min, 0)), RealZero(Num(x_min, -1)),
            RealZero(Num(x_min + 1, 0)), RealZero(Num(x_max, 0)),
            RealZero(Num(x_max, 1))}

SeqsUpTo(S, n) == UNION {[1..k -> S] : k \in 0..n}

\* den_zero, or a failure of simplify / solve.  The derivative of a
\* polynomial has denominator 1: no solution; so has that of "values".
DenZeroOutcomes ==
    IF fn # "search" THEN {[failed |-> FALSE, zs |-> <<>>]}
    ELSE {[failed |-> TRUE, zs |-> <<>>]}
         \cup {[failed |-> FALSE, zs |-> zs] : zs \in SeqsUpTo(DenPool, MaxDenZeros)}

\* if x_min <= zv <= x_max
InDomain(p) == Leq(Num(x_min, 0), p) /\ Leq(p, Num(x_max, 0))

RECURSIVE Accepted(_)
Accepted(zs) ==
    IF zs = <<>> THEN <<>>
    ELSE (IF Head(zs).real /\ InDomain(Head(zs).v) THEN <<Head(zs).v>> ELSE <<>>)
         \o Accepted(Tail(zs))

DenZeros ==
    /\ pc = "denzeros"
    /\ \E out \in DenZeroOutcomes :
          crit_points' = IF out.failed THEN crit_points
                         ELSE crit_points \o Accepted(out.zs)
    /\ pc' = "dedup"
    /\ UNCHANGED <<fn, x_min, x_max, samples, tol, der_shape, der_vals, i,
                   candidates, bis, breaks, intervals, classification,
                   extrema, f1_memo, probe>>

\* lines 108-113
Dedup ==
    /\ pc = "dedup"
    /\ crit_points' = DedupSort(crit_points)
    /\ breaks' = Breaks(x_min, crit_points', x_max)
    /\ intervals' = <<>>
    /\ classification' = <<>>
    /\ i' = 0
    /\ pc' = "intervals"
    /\ UNCHANGED <<fn, x_min, x_max, samples, tol, der_shape, der_vals,
                   candidates, bis, extrema, f1_memo, probe>>

----------------------------------------------------------------------------
(* Lines 114-131: monotonicity on each interval *)

\* lines 122-129 with abs(dmid) < tol in the place of abs(dmid) <= tol
ClassifyIntervalStrict(dmid, t) ==
    IF IsNaN(dmid) THEN "indeterminado"
    ELSE IF (IF dmid[2] < 0 THEN -dmid[2] ELSE dmid[2]) < t THEN "constante"
    ELSE IF dmid[2] > 0 THEN "creciente"
    ELSE "decreciente"

Abs(v) == IF v < 0 THEN -v ELSE v

\* lines 122-129
ClassifyInterval(dmid, t) ==
    IF IsNaN(dmid) THEN "indeterminado"
    ELSE IF Abs(dmid[2]) <= t THEN "constante"
    ELSE IF dmid[2] > 0 THEN "creciente"
    ELSE "decreciente"

IntervalStep ==
    /\ pc = "intervals"
    /\ i < Len(breaks) - 1
    /\ LET a == breaks[i + 1]
           b == breaks[i + 2]
       IN  \E out \in EvalF1Float(Sum(a, b)) :
             \* try: dmid = float(f1_num(mid)) / except: dmid = np.nan
             LET dmid == IF out = Raise THEN NaN ELSE out
             IN  /\ intervals' = Append(intervals, <<a, b>>)
                 /\ classification' = Append(classification, ClassifyInterval(dmid, tol))
                 /\ probe' = [probe EXCEPT !.dmid = out]
    /\ i' = i + 1
    /\ UNCHANGED <<fn, x_min, x_max, samples, tol, pc, der_shape, der_vals,
                   candidates, bis, crit_points, breaks, extrema, f1_memo>>

IntervalsEnd ==
    /\ pc = "intervals"
    /\ i = Len(breaks) - 1
    /\ i' = 0
    /\ pc' = "extrema"
    /\ UNCHANGED <<fn, x_min, x_max, samples, tol, der_shape, der_vals,
                   candidates, bis, crit_points, breaks, intervals,
                   classification, extrema, f1_memo, probe>>

----------------------------------------------------------------------------
(* Lines 135-165: kind of each critical point (the kinds are written here  *)
(* without their accents)                                                  *)

Min2 == "minimo local (segunda derivada > 0)"
Max2 == "maximo local (segunda derivada < 0)"
MaxSign == "maximo local (cambio + -> -)"
MinSign == "minimo local (cambio - -> +)"
NoConcl == "punto critico (no concluyente)"
NoEval == "punto critico (segunda derivada no evaluable)"

Gt0(o) == IsNum(o) /\ o[2] > 0
Lt0(o) == IsNum(o) /\ o[2] < 0

\* whether lines 146-155 run: s > 0 and s < 0 are both false
FallsBack(s) == s # Raise /\ ~Gt0(s) /\ ~Lt0(s)

\* lines 137-159 with the tests s > 0 and s < 0 exchanged
ExtremumKindSwapped(s, left, right) ==
    IF s = Raise THEN NoEval
    ELSE IF Gt0(s) THEN Max2
    ELSE IF Lt0(s) THEN Min2
    ELSE IF left = Raise \/ right = Raise THEN NoConcl
    ELSE IF Gt0(left) /\ Lt0(right) THEN MaxSign
    ELSE IF Lt0(left) /\ Gt0(right) THEN MinSign
    ELSE NoConcl

\* lines 137-159; left and right are read only in the fallback
ExtremumKind(s, left, right) ==
    IF s = Raise THEN NoEval
    ELSE IF Gt0(s) THEN Min2
    ELSE IF Lt0(s) THEN Max2
    ELSE IF left = Raise \/ right = Raise THEN NoConcl
    ELSE IF Gt0(left) /\ Lt0(right) THEN MaxSign
    ELSE IF Lt0(left) /\ Gt0(right) THEN MinSign
    ELSE NoConcl

\* the points of the fallback, lines 148-149: c - h, then c + h unless the
\* first call raised
FallbackPoints(c, left) ==
    IF left = Raise THEN <<Shift(c, -HTicks)>>
    ELSE <<Shift(c, -HTicks), Shift(c, HTicks)>>

\* the calls f1_num(c - h), f1_num(c + h) of the fallback: the second is
\* not made when the first raises
FallbackCalls(c) ==
    {<<l, r>> : l \in EvalF1Float(Dbl(Shift(c, -HTicks))) \ {Raise},
                r \in EvalF1Float(Dbl(Shift(c, HTicks)))}
    \cup {<<l, NotEval>> : l \in EvalF1Float(Dbl(Shift(c, -HTicks))) \cap {Raise}}

ExtremumStep ==
    /\ pc = "extrema"
    /\ i < Len(crit_points)
    /\ LET c == crit_points[i + 1]
       IN  \E s \in EvalF2(c), fv \in EvalF(c) :
           \E lr \in IF FallsBack(s) THEN FallbackCalls(c)
                     ELSE {<<NotEval, NotEval>>} :
             /\ extrema' = Append(extrema,
                                  [c |-> c,
                                   fv |-> IF fv = Raise THEN NotEval ELSE fv,
                                   tipo |-> ExtremumKind(s, lr[1], lr[2])])
             /\ probe' = [probe EXCEPT !.s = s, !.left = lr[1], !.right = lr[2],
                                       !.pts = IF FallsBack(s)
                                               THEN FallbackPoints(c, lr[1])
                                               ELSE <<>>]
    /\ i' = i + 1
    /\ UNCHANGED <<fn, x_min, x_max, samples, tol, pc, der_shape, der_vals,
                   candidates, bis, crit_points, breaks, intervals,
                   classification, f1_memo>>

\* lines 167-230: the results are displayed
Show ==
    /\ pc = "extrema"
    /\ i = Len(crit_points)
    /\ pc' = "output"
    /\ UNCHANGED <<fn, x_min, x_max, samples, tol, der_shape, der_vals, i,
                   candidates, bis, crit_points, breaks, intervals,
                   classification, extrema, f1_memo, probe>>

----------------------------------------------------------------------------

Next == \/ Sample \/ SweepStep \/ BisectStep \/ BisectEnd \/ SweepEnd
        \/ DenZeros \/ Dedup \/ IntervalStep \/ IntervalsEnd
        \/ ExtremumStep \/ Show

Spec == Init /\ [][Next]_vars

----------------------------------------------------------------------------
(* The deduplication of line 108 on its own: the run stands before line    *)
(* 108 with any candidates the search can have collected.  The sampled     *)
(* derivative alternates in sign, the solver returned a float near x_min   *)
(* for some of the brackets, and sp.solve returned zeros of the            *)
(* denominator near x_min inside the domain.                               *)

RawPool == {Num(0, t) : t \in (-MaxTick)..MaxTick}

InitDedup ==
    /\ fn = "search"
    /\ tol = 1
    /\ samples = MaxRaw + 1
    /\ x_min = 0
    /\ x_max = MaxRaw * GridStep
    /\ pc = "dedup"
    /\ der_shape = "array"
    /\ der_vals = [n \in 1..samples |-> Val(IF n % 2 = 1 THEN -1 ELSE 1)]
    /\ i = samples - 1
    /\ bis = NoBisection
    /\ \E raw \in SeqsUpTo(RawPool, MaxRaw), k \in 0..MaxRaw :
          /\ k <= Len(raw)
          /\ \A n \in (k + 1)..Len(raw) : InDomain(raw[n])
          /\ candidates = SeqToSet(SubSeq(raw, 1, k))
          /\ crit_points = Sorted(candidates) \o SubSeq(raw, k + 1, Len(raw))
    /\ breaks = <<>>
    /\ intervals = <<>>
    /\ classification = <<>>
    /\ extrema = <<>>
    /\ f1_memo = {}
    /\ probe = NoProbe

NextDedup == Dedup

SpecDedup == InitDedup /\ [][NextDedup]_vars

----------------------------------------------------------------------------
(* Properties *)

\* the interval loop has finished
IntervalsBuilt == pc \in {"extrema", "output"}
\* line 108 has run
Deduplicated == pc \in {"intervals", "extrema", "output"}

LastInterval == intervals[Len(intervals)]
LastLabel == classification[Len(classification)]
LastExtremum == extrema[Len(extrema)]

\* there are Len(crit_points) + 1 intervals, from x_min to x_max, each
\* ending where the next starts
IntervalsChain ==
    /\ Len(intervals) = Len(crit_points) + 1
    /\ intervals[1][1] = Num(x_min, 0)
    /\ LastInterval[2] = Num(x_max, 0)
    /\ \A k \in 1..(Len(intervals) - 1) : intervals[k][2] = intervals[k + 1][1]

\* C1: once the intervals are built there are len(critical_points) + 1 of
\* them, the first starts at x_min, the last ends at x_max, each ends where
\* the next starts, and no interval runs backwards, so that together they
\* cover exactly [x_min, x_max] with no gap and no overlap.
C1_IntervalsPartition ==
    IntervalsBuilt =>
        /\ IntervalsChain
        /\ \A k \in 1..Len(intervals) : Leq(intervals[k][1], intervals[k][2])

\* C2: every interval (a, b) produced has a < b strictly.
C2_IntervalsStrict ==
    \A k \in 1..Len(intervals) : Less(intervals[k][1], intervals[k][2])

\* q lies at least d ticks above p
Apart(p, q, d) == q[1] > p[1] \/ (q[1] = p[1] /\ q[2] - p[2] >= d)

\* C3 (as amended): after the deduplication the critical points are strictly
\* increasing and two neighbours differ by at least 1e-12 (TicksPerGrid
\* ticks).
C3_GridSeparated ==
    Deduplicated =>
        \A k \in 1..(Len(crit_points) - 1) :
            /\ Less(crit_points[k], crit_points[k + 1])
            /\ Apart(crit_points[k], crit_points[k + 1], TicksPerGrid)

\* C3 (as claimed): after the deduplication the critical points are strictly
\* increasing and any two differ by more than 1e-12.
C3_MoreThanGrid ==
    Deduplicated =>
        \A k \in 1..(Len(crit_points) - 1) :
            /\ Less(crit_points[k], crit_points[k + 1])
            /\ Apart(crit_points[k], crit_points[k + 1], TicksPerGrid + 1)

\* the deduplication merged candidates and left two critical points exactly
\* 1e-12 apart
C3_NeighboursOneGridApart ==
    /\ pc = "intervals"
    /\ Cardinality(candidates) > Len(crit_points)
    /\ \E k \in 1..(Len(crit_points) - 1) :
          /\ crit_points[k][1] = crit_points[k + 1][1]
          /\ crit_points[k + 1][2] - crit_points[k][2] = TicksPerGrid

\* C4: once the inputs are accepted the run is never aborted by a failure
\* of an evaluation or of a solver.
C4_NeverAborts == pc # "aborted"

\* C5: a critical point whose second derivative raises or is not-a-number
\* gets the kind "segunda derivada no evaluable", and the fallback is not
\* run for it.
C5_NotEvaluable ==
    (Len(extrema) > 0 /\ probe.s \in {NaN, Raise}) =>
        /\ LastExtremum.tipo = NoEval
        /\ probe.pts = <<>>

\* C6: for a critical point c whose second derivative is a number s: s > 0
\* gives the minimum by second derivative and s < 0 the maximum by second
\* derivative, f1_num not being called at c - h or c + h; s = 0 runs the
\* fallback at c - 1e-4 and c + 1e-4, which gives the maximum by change of
\* sign when left > 0 and right < 0, the minimum by change of sign when
\* left < 0 and right > 0, and "no concluyente" otherwise, a failed
\* evaluation of left or right included.
C6_SecondDerivativeTest ==
    (Len(extrema) > 0 /\ IsNum(probe.s)) =>
        LET c == LastExtremum.c
            tipo == LastExtremum.tipo
            s == probe.s[2]
            h == Pow10(8) * TicksPerGrid
        IN  /\ s > 0 => (tipo = Min2 /\ probe.pts = <<>>)
            /\ s < 0 => (tipo = Max2 /\ probe.pts = <<>>)
            /\ s = 0 =>
                  /\ probe.pts \in {<<Shift(c, -h)>>, <<Shift(c, -h), Shift(c, h)>>}
                  /\ tipo = IF Gt0(probe.left) /\ Lt0(probe.right) THEN MaxSign
                            ELSE IF Lt0(probe.left) /\ Gt0(probe.right) THEN MinSign
                            ELSE NoConcl

\* a second derivative of 0, and the fallback found a maximum
C6_FallbackDecides ==
    /\ Len(extrema) > 0
    /\ probe.s = Val(0)
    /\ Len(probe.pts) = 2
    /\ LastExtremum.tipo = MaxSign

\* the label of lines 122-129 for the outcome o of f1_num(mid), the
\* increasing case being v > bound
Label(o, t, bound) ==
    IF o \in {NaN, Raise} THEN "indeterminado"
    ELSE IF Abs(o[2]) <= t THEN "constante"
    ELSE IF o[2] > bound THEN "creciente"
    ELSE "decreciente"

\* C7 (as amended): the label of an interval depends only on the value v of
\* the first derivative at its midpoint: indeterminate if the evaluation
\* raises or gives NaN, constant if |v| <= tol, increasing if v > 0,
\* decreasing otherwise.
C7_LabelRule ==
    Len(classification) > 0 => LastLabel = Label(probe.dmid, tol, 0)

\* C7 (as claimed): the same, increasing being v > tol.
C7_LabelRuleAsClaimed ==
    Len(classification) > 0 => LastLabel = Label(probe.dmid, tol, tol)

\* a negative tolerance and a derivative of 0 at the midpoint
C7_NegativeTolerance ==
    /\ Len(classification) > 0
    /\ tol < 0
    /\ probe.dmid = Val(0)
    /\ LastLabel = "decreciente"

\* C8: for x**3 on [-5, 5] and any sample count the results are one critical
\* point at 0, the intervals (-5, 0) and (0, 5), both increasing, and one
\* extremum at 0, "no concluyente" by the fallback after a second derivative
\* of 0.
C8_CubicScenario ==
    (fn = "x**3" /\ x_min = -5 /\ x_max = 5 /\ pc = "output") =>
        /\ crit_points = <<Num(0, 0)>>
        /\ intervals = << <<Num(-5, 0), Num(0, 0)>>, <<Num(0, 0), Num(5, 0)>> >>
        /\ classification = <<"creciente", "creciente">>
        /\ Len(extrema) = 1
        /\ extrema[1].c = Num(0, 0)
        /\ extrema[1].tipo = NoConcl
        /\ probe.s = Val(0)
        /\ Len(probe.pts) = 2

\* C9: a bisection that could follow the sign change through its 40 steps
\* (no evaluation raised or gave NaN) has a critical point to report.
C9_BisectionReports ==
    (pc = "bisect" /\ bis.it = BisectIters /\ ~bis.nans) => bis.rr # <<>>

\* C10: every sample, the first and the last included, at which the sampled
\* derivative is exactly 0 and whose neighbours are not NaN is, rounded to
\* 12 decimals, in the final list of critical points.
C10_ZeroSamplesListed ==
    (Deduplicated /\ der_shape = "array") =>
        \A n \in 0..(samples - 1) :
            ( /\ der_vals[n + 1] = Val(0)
              /\ n > 0 => ~IsNaN(der_vals[n])
              /\ n < samples - 1 => ~IsNaN(der_vals[n + 2]) )
            => Round12(Xs(n)) \in SeqToSet(crit_points)

====
